---- MODULE Spec2Model ----
(***************************************************************************)
(* A model of the two concurrent subsystems of the voice assistant:        *)
(*   - WakeWordDetector (src/assistant/wake_word_detector.py): microphone  *)
(*     permission, start/stop of continuous listening, the background      *)
(*     _listen_loop, _process_speech_buffer and _contains_wake_word;       *)
(*   - TTSEngineManager and its engines (src/assistant/tts_engines.py):    *)
(*     get_engine, the lazy _load_model and speak.                         *)
(*                                                                         *)
(* Specifications:                                                         *)
(*   Spec      the listener's life cycle: one caller issuing               *)
(*             request_microphone_permission / start / stop calls, the     *)
(*             worker threads those calls launch, interleaved;             *)
(*   SpecLoop  one worker running _listen_loop over a long chunk stream;   *)
(*   SpecFaults   that worker on a device whose reads fail and whose       *)
(*             chunks the classifier cannot take, with either classifier;  *)
(*   SpecSegments that worker over several short speech runs;              *)
(*   SpecWake  _contains_wake_word over bounded texts and phrase lists;    *)
(*   SpecTTS   two threads calling TTSEngineManager.speak concurrently;    *)
(*   SpecVoice one caller of speak over every engine, voice and clone path.*)
(***************************************************************************)
EXTENDS Integers, Sequences, FiniteSets, TLC

(***************************************************************************)
(* Bounds of the model                                                     *)
(***************************************************************************)
\* worker threads one listener may launch over its life
MaxWorkers == 2
\* calls the caller makes in Spec
LifeOps == 3
\* chunks the device delivers in Spec
LifeReads == 2
\* chunks the device delivers in SpecLoop
LoopReads == 53
\* speech runs the device delivers in Spec, SpecLoop and SpecFaults
MaxRuns == 1
\* silence chunks the device delivers
MaxSilence == 2
\* length of a transcribed text in SpecWake
MaxTextLen == 3
\* length of a configured phrase in SpecWake
MaxPhraseLen == 2
\* speak() calls per thread in SpecTTS
MaxCalls == 2
\* chunks the classifier raises on, in Spec and SpecFaults
LifeBad == 1
\* reads the device fails on an open stream, in SpecFaults
MaxFails == 3
\* chunks the device delivers in SpecSegments
SegReads == 4
\* speech runs the device delivers in SpecSegments
SegRuns == 2

(***************************************************************************)
(* Program constants                                                       *)
(***************************************************************************)
\* wake_word_detector.py:179  `if len(audio_buffer) > 50`
MaxBuffer == 50
\* wake_word_detector.py:29  `sample_rate=44100`
DefaultSampleRate == 44100
\* audio_manager.py:22  `self.sample_rate = 16000`
ManagerSampleRate == 16000

VARIABLES
    \* ---- WakeWordDetector fields
    wake_words,          \* self.wake_words: the phrases, lower-cased at construction
    sample_rate,         \* self.sample_rate
    is_listening,        \* self.is_listening
    permission_granted,  \* self.permission_granted
    stream,              \* self.stream: 0 is None, else a stream id
    whisper_available,   \* self.whisper_available: "None" | "True" | "False"
    whisper_warned,      \* self.whisper_warned
    vad,                 \* self.vad is set: the primary classifier is in use
    \* ---- the audio device
    nstreams,            \* streams created so far (ids 1..nstreams)
    openStreams,         \* ids of the streams created and not closed
    nread,               \* chunks delivered so far (chunk ids 1..nread)
    readsLeft,           \* chunks the device still delivers
    badLeft,             \* chunks it still delivers that the classifier raises on
    failsLeft,           \* reads it still fails on a stream that is open
    runs,                \* the speech runs delivered: <<[first, last], ...>>
    runsLeft,            \* speech runs the device still begins
    silences,            \* silence chunks delivered so far
    \* ---- the caller of the listener's public methods
    cpc,                 \* where the caller is inside a call
    call,                \* the current (or last) call and what it did
    opsLeft,             \* calls the caller still makes
    everStopped,         \* stop was called while the listener was listening
    \* ---- the worker threads (_listen_loop)
    wpc,                 \* "none" | "top" | "read" | "proc" | "backoff" | "exited"
    audio_buffer,        \* the local audio_buffer
    speech_detected,     \* the local speech_detected
    chunk,               \* the local audio_chunk
    raised,              \* what was raised in the worker's current iteration
    streak,              \* the read failures in a row the worker has just seen
    stale,               \* workers alive when a stop cleared the flag
    resumed,             \* stale workers that began a new iteration
    \* ---- what the loop did
    flushes,             \* the segments handed to _process_speech_buffer
    lastFlush,           \* what the last flush did
    speechEvents,        \* on_speech_detected calls
    ntranscribe,         \* whisper_model.transcribe calls
    wakeEvents,          \* on_wake_word calls
    tempLeaked,          \* temp WAV files left on disk
    loopReports,         \* error-callback calls made by the loop
    \* ---- _contains_wake_word under SpecWake
    wakeCfg,             \* the wake_words argument of the constructor
    lastText,            \* the text given to _contains_wake_word
    lastMatch,           \* its result: "none" | "True" | "False"
    \* ---- TTSEngineManager and its engines
    engines,             \* self.engines: backend name -> engine instance, 0 if absent
    instBackend,         \* the engine instances created, each by its backend name
    models_downloaded,   \* PiperEngine.models_downloaded of each instance
    piper_files,         \* the files of PIPER_DIR: <<voice, "model">>, <<voice, "config">>
    model,               \* each instance's self.model: "None" | "loaded"
    loadStarts,          \* per backend, the model loads begun
    loadFails,           \* per backend, the model loads that raised
    synthFails,          \* per backend, the synthesize calls that raised
    \* ---- the threads calling speak()
    tpc,                 \* where each thread is inside speak()
    tcall,               \* each thread's current (or last) call
    callsLeft,           \* speak() calls each thread still makes
    requests             \* the arguments the callers pass to speak()

fieldVars  == <<wake_words, sample_rate, vad, is_listening, permission_granted, stream,
                whisper_available, whisper_warned>>
deviceVars == <<nstreams, openStreams, nread, readsLeft, badLeft, failsLeft, runs, runsLeft, silences>>
callerVars == <<cpc, call, opsLeft, everStopped>>
workerVars == <<wpc, audio_buffer, speech_detected, chunk, raised, streak, stale, resumed>>
loopVars   == <<flushes, lastFlush, speechEvents, ntranscribe, wakeEvents, tempLeaked, loopReports>>
wakeVars   == <<wakeCfg, lastText, lastMatch>>
listenerVars == <<fieldVars, deviceVars, callerVars, workerVars, loopVars>>
piperVars  == <<models_downloaded, piper_files>>
ttsVars    == <<engines, instBackend, model, loadStarts, loadFails, synthFails,
                piperVars, tpc, tcall, callsLeft, requests>>
vars == <<listenerVars, wakeVars, ttsVars>>

(***************************************************************************)
(* Text: a string is a sequence of one-character strings.                  *)
(***************************************************************************)
\* str.lower() on one character
LowerChar(c) ==
    CASE c = "A" -> "a"
      [] c = "B" -> "b"
      [] c = "H" -> "h"
      [] OTHER -> c

\* a lower() that leaves the case as it is
Lower_Identity(s) == s

\* str.lower()
Lower(s) == [i \in 1..Len(s) |-> LowerChar(s[i])]

\* `sub in s` for Python strings: s holds sub as a contiguous slice
StrIn(sub, s) ==
    \E off \in 0..(Len(s) - Len(sub)) : SubSeq(s, off + 1, off + Len(sub)) = sub

\* WakeWordDetector.__init__: self.wake_words = [word.lower() for word in wake_words]
InitWakeWords(cfg) == [i \in 1..Len(cfg) |-> Lower(cfg[i])]

\* a match that needs every phrase to occur
ContainsWakeWord_AllPhrases(words, text) ==
    \A i \in 1..Len(words) : StrIn(words[i], Lower(text))

\* WakeWordDetector._contains_wake_word, given self.wake_words
ContainsWakeWord(words, text) ==
    LET text_lower == Lower(text)
    IN  \E i \in 1..Len(words) : StrIn(words[i], text_lower)

\* the constructor's default wake_words
DefaultWakeWords ==
    << <<"h","e","y"," ","a","s","s","i","s","t","a","n","t">>,
       <<"v","o","i","c","e"," ","a","s","s","i","s","t","a","n","t">> >>


\* str.strip(), for the one whitespace character of the model
RECURSIVE LStrip(_)
LStrip(s) == IF s # <<>> /\ Head(s) = " " THEN LStrip(Tail(s)) ELSE s
RECURSIVE RStrip(_)
RStrip(s) == IF s # <<>> /\ s[Len(s)] = " " THEN RStrip(SubSeq(s, 1, Len(s) - 1)) ELSE s
Strip(s) == RStrip(LStrip(s))

\* what whisper_model.transcribe may return as result["text"]
TranscribedTexts ==
    { <<" ","H","e","y"," ","A","s","s","i","s","t","a","n","t">>,
      <<"h","e","y"," ","t","h","e","r","e">> }

(***************************************************************************)
(* The listener: helpers                                                   *)
(***************************************************************************)
Workers == 1..MaxWorkers

\* the thread is inside _listen_loop: at the flag test, at the read, in the loop
\* body or asleep in the handler
Alive(w) == wpc[w] \in {"top", "read", "proc", "backoff"}

NoChunk == [id |-> 0, speech |-> FALSE, bad |-> FALSE]

NoFlush == [seg |-> <<>>, wav |-> FALSE, framerate |-> 0,
            probed |-> FALSE, warned |-> FALSE,
            transcribed |-> FALSE, text |-> <<>>, fired |-> FALSE,
            swallowed |-> "none"]

\* the record of a call, taken at its entry
NewCall(op) ==
    [op |-> op, ret |-> "pending",
     wasListening |-> is_listening, hadPerm |-> permission_granted,
     afterStop |-> everStopped,
     perm |-> "skipped", open |-> "skipped", launch |-> "skipped",
     probes |-> 0, opened |-> 0, launched |-> 0, errors |-> 0]

\* how request_microphone_permission can end: the throwaway stream was opened, read
\* and closed; create_input_stream returned None; or start/read/stop/close raised
PermOutcomes == {"ok", "no_stream", "io_error"}

\* AudioManager.create_input_stream: `rate=self.sample_rate`, the rate every
\* stream is opened with, whatever chunk_size it is asked for
StreamRate(id) == ManagerSampleRate

\* request_microphone_permission: the throwaway stream and self.permission_granted
RequestPermission(o) ==
    /\ permission_granted' = (o = "ok")
    /\ nstreams' = IF o = "no_stream" THEN nstreams ELSE nstreams + 1
    /\ openStreams' = IF o = "io_error" THEN openStreams \cup {nstreams + 1}
                      ELSE openStreams

\* what the call record says of a permission request that ended as o
WithPermission(c, o) ==
    [c EXCEPT !.perm = o,
              !.probes = IF o = "no_stream" THEN 0 ELSE 1,
              !.errors = IF o = "ok" THEN 0 ELSE 1]

\* a start that never asks for permission
NeedsPermission_Never == FALSE

\* start_continuous_listening: `if not self.permission_granted`
NeedsPermission == ~permission_granted

\* a start that takes a stopped listener for one still listening
AlreadyListening_OrStopped == is_listening \/ everStopped

\* start_continuous_listening: `if self.is_listening`
AlreadyListening == is_listening

\* a loop that never tests the flag
LoopContinues_Always == TRUE

\* _listen_loop: `while self.is_listening`
LoopContinues == is_listening

\* a classifier without the handler of lines 109-111
ClassifyRaises_Unhandled(c) == c.bad

\* _is_speech raises on the chunk: the energy fallback (lines 101-105) has no
\* handler; the VAD path (lines 107-111) catches what vad.is_speech raises
ClassifyRaises(c) == c.bad /\ ~vad

\* a classifier that takes every chunk for speech
IsSpeech_Always(c) == TRUE

\* the sample rates webrtcvad's Vad.is_speech accepts; given another rate it
\* raises on every chunk
VadRates == {8000, 16000, 32000, 48000}

\* _is_speech, line 108: vad.is_speech(audio_chunk, self.sample_rate) raises, on
\* a chunk it cannot take or on a rate it does not accept
VadRaises(c) == c.bad \/ sample_rate \notin VadRates

\* _is_speech: the classifier's verdict on a chunk; on the VAD path an exception
\* of vad.is_speech is logged and the verdict is False
IsSpeech(c) == IF vad /\ VadRaises(c) THEN FALSE ELSE c.speech

\* a handler that ends the loop
Backoff_Exits == "exited"

\* _listen_loop, lines 182-184: where a worker is after the loop's handler caught
\* an exception: logged, it sleeps in time.sleep(0.1)
Backoff == "backoff"

\* exc is raised in w's iteration and reaches the loop's handler
Caught(w, exc) ==
    /\ wpc' = [wpc EXCEPT ![w] = Backoff]
    /\ raised' = [raised EXCEPT ![w] = exc]

\* w's iteration runs to its end; exc is what was swallowed on the way, if anything
Completed(w, exc) ==
    /\ wpc' = [wpc EXCEPT ![w] = "top"]
    /\ raised' = [raised EXCEPT ![w] = exc]

\* an append at the front of the buffer
AppendChunk_Front(buf, c) == <<c.id>> \o buf

\* _listen_loop: audio_buffer.append(audio_chunk)
AppendChunk(buf, c) == Append(buf, c.id)

\* a flush at every silence chunk
SpeechEnded_AnySilence(sd, buf) == TRUE

\* _listen_loop: `elif speech_detected and len(audio_buffer) > 0`
SpeechEnded(sd, buf) == sd /\ Len(buf) > 0

\* _listen_loop: `if len(audio_buffer) > 50: audio_buffer = audio_buffer[-50:]`
LimitBuffer(buf) ==
    IF Len(buf) > MaxBuffer THEN SubSeq(buf, Len(buf) - MaxBuffer + 1, Len(buf))
    ELSE buf

(***************************************************************************)
(* The listener: the caller's operations                                   *)
(***************************************************************************)
\* request_microphone_permission(), called directly
RequestPermissionCall ==
    /\ cpc = "idle" /\ opsLeft > 0
    /\ opsLeft' = opsLeft - 1
    /\ \E o \in PermOutcomes, cbRaises \in BOOLEAN :
         /\ cbRaises => o # "ok"
         /\ RequestPermission(o)
         /\ call' = [WithPermission(NewCall("perm"), o) EXCEPT
                       !.ret = IF cbRaises THEN "raised"
                               ELSE IF o = "ok" THEN "True" ELSE "False"]
    /\ UNCHANGED <<wake_words, sample_rate, vad, is_listening, stream, whisper_available, whisper_warned>>
    /\ UNCHANGED <<nread, readsLeft, badLeft, failsLeft, runs, runsLeft, silences, cpc, everStopped>>
    /\ UNCHANGED <<workerVars, loopVars, wakeVars, ttsVars>>

\* start_continuous_listening(), lines 115-121: the permission check and the
\* already-listening check
StartBegin ==
    /\ cpc = "idle" /\ opsLeft > 0
    /\ opsLeft' = opsLeft - 1
    /\ \E o \in PermOutcomes, cbRaises \in BOOLEAN :
         LET asked == NeedsPermission
             c == IF asked THEN WithPermission(NewCall("start"), o) ELSE NewCall("start")
         IN  /\ IF asked THEN cbRaises => o # "ok" ELSE o = "ok" /\ ~cbRaises
             /\ IF asked THEN RequestPermission(o)
                ELSE UNCHANGED <<permission_granted, nstreams, openStreams>>
             /\ IF asked /\ o # "ok"
                THEN /\ cpc' = "idle"
                     /\ call' = [c EXCEPT !.ret = IF cbRaises THEN "raised" ELSE "False"]
                ELSE IF AlreadyListening
                THEN /\ cpc' = "idle"
                     /\ call' = [c EXCEPT !.ret = "True"]
                ELSE /\ \E w \in Workers : wpc[w] = "none"
                     /\ cpc' = "start_open"
                     /\ call' = c
    /\ UNCHANGED <<wake_words, sample_rate, vad, is_listening, stream, whisper_available, whisper_warned>>
    /\ UNCHANGED <<nread, readsLeft, badLeft, failsLeft, runs, runsLeft, silences, everStopped>>
    /\ UNCHANGED <<workerVars, loopVars, wakeVars, ttsVars>>

\* start_continuous_listening(), lines 125-129: the persistent stream
StartOpen ==
    /\ cpc = "start_open"
    /\ \E o \in {"ok", "no_stream", "start_error"} :
         /\ stream' = IF o = "no_stream" THEN 0 ELSE nstreams + 1
         /\ nstreams' = IF o = "no_stream" THEN nstreams ELSE nstreams + 1
         /\ openStreams' = IF o = "no_stream" THEN openStreams
                           ELSE openStreams \cup {nstreams + 1}
         /\ call' = [call EXCEPT !.open = o,
                                 !.opened = IF o = "no_stream" THEN 0 ELSE 1,
                                 !.ret = IF o = "ok" THEN "pending" ELSE "False"]
         /\ cpc' = IF o = "ok" THEN "start_launch" ELSE "idle"
    /\ UNCHANGED <<wake_words, sample_rate, vad, is_listening, permission_granted,
                   whisper_available, whisper_warned>>
    /\ UNCHANGED <<nread, readsLeft, badLeft, failsLeft, runs, runsLeft, silences, opsLeft, everStopped>>
    /\ UNCHANGED <<workerVars, loopVars, wakeVars, ttsVars>>

\* start_continuous_listening(), lines 130-135: the flag and the worker thread
StartLaunch ==
    /\ cpc = "start_launch"
    /\ is_listening' = TRUE
    /\ cpc' = "idle"
    /\ \E threadStarts \in BOOLEAN :
         IF threadStarts
         THEN LET w == CHOOSE x \in Workers :
                          wpc[x] = "none" /\ \A y \in Workers : wpc[y] = "none" => x <= y
              IN  /\ wpc' = [wpc EXCEPT ![w] = "top"]
                  /\ audio_buffer' = [audio_buffer EXCEPT ![w] = <<>>]
                  /\ speech_detected' = [speech_detected EXCEPT ![w] = FALSE]
                  /\ call' = [call EXCEPT !.launch = "ok", !.launched = 1, !.ret = "True"]
         ELSE /\ UNCHANGED <<wpc, audio_buffer, speech_detected>>
              /\ call' = [call EXCEPT !.launch = "thread_error", !.ret = "False"]
    /\ UNCHANGED <<wake_words, sample_rate, vad, permission_granted, stream,
                   whisper_available, whisper_warned>>
    /\ UNCHANGED <<deviceVars, opsLeft, everStopped, chunk, raised, streak, stale, resumed>>
    /\ UNCHANGED <<loopVars, wakeVars, ttsVars>>

\* stop_continuous_listening(), line 143: the flag
StopFlag ==
    /\ cpc = "idle" /\ opsLeft > 0
    /\ opsLeft' = opsLeft - 1
    /\ is_listening' = FALSE
    /\ everStopped' = (everStopped \/ is_listening)
    /\ stale' = stale \cup {w \in Workers : Alive(w)}
    /\ IF stream # 0
       THEN cpc' = "stop_close" /\ call' = NewCall("stop")
       ELSE cpc' = "idle" /\ call' = [NewCall("stop") EXCEPT !.ret = "None"]
    /\ UNCHANGED <<wake_words, sample_rate, vad, permission_granted, stream,
                   whisper_available, whisper_warned>>
    /\ UNCHANGED <<deviceVars, wpc, audio_buffer, speech_detected, chunk, raised, streak, resumed>>
    /\ UNCHANGED <<loopVars, wakeVars, ttsVars>>

\* stop_continuous_listening(), lines 145-152: stop_stream() and close(); on a
\* stream already closed they raise, which is caught and logged
StopClose ==
    /\ cpc = "stop_close"
    /\ cpc' = "idle"
    /\ IF stream \in openStreams
       THEN /\ openStreams' = openStreams \ {stream}
            /\ call' = [call EXCEPT !.ret = "None"]
       ELSE /\ UNCHANGED openStreams
            /\ call' = [call EXCEPT !.errors = 1, !.ret = "None"]
    /\ UNCHANGED <<fieldVars, nstreams, nread, readsLeft, badLeft, failsLeft, runs, runsLeft, silences>>
    /\ UNCHANGED <<opsLeft, everStopped, workerVars, loopVars, wakeVars, ttsVars>>


(***************************************************************************)
(* The listener: the worker thread                                         *)
(***************************************************************************)
\* a check for Whisper that is made again at every flush
WhisperAvailable_Uncached(cached, found) == IF found THEN "True" ELSE "False"

\* _process_speech_buffer, lines 199-214: self.whisper_available after the check
\* `if self.whisper_available is None`, which imports and loads Whisper (found
\* or not) only while nothing is cached
WhisperAvailable(cached, found) ==
    IF cached = "None" THEN (IF found THEN "True" ELSE "False") ELSE cached

\* how whisper_model.transcribe can end: it raises, or returns a text
TranscribeOutcomes ==
    {[ok |-> FALSE, text |-> <<>>]} \cup {[ok |-> TRUE, text |-> t] : t \in TranscribedTexts}

\* _process_speech_buffer(audio_buffer). It never raises: a failure while writing
\* the WAV file is caught by the outer handler (the file stays, os.unlink is not
\* reached); a failure of transcribe or of the on_wake_word callback is swallowed
\* by the inner handler, after which the file is unlinked.
ProcessSpeechBuffer(buf) ==
    /\ flushes' = Append(flushes, buf)
    /\ UNCHANGED loopReports
    /\ \E wavOK \in BOOLEAN, probe \in BOOLEAN, tr \in TranscribeOutcomes :
         LET avail == WhisperAvailable(whisper_available, probe)
             probed == whisper_available = "None"
             warns == probed /\ avail = "False" /\ ~whisper_warned
             text == Strip(tr.text)
             hit == tr.ok /\ ContainsWakeWord(wake_words, text)
         IN  IF ~wavOK
             THEN /\ probe /\ ~tr.ok
                  /\ tempLeaked' = tempLeaked + 1
                  /\ lastFlush' = [NoFlush EXCEPT !.seg = buf, !.swallowed = "wav"]
                  /\ UNCHANGED <<whisper_available, whisper_warned, ntranscribe, wakeEvents>>
             ELSE /\ (whisper_available # "None") => probe
                  /\ (avail # "True") => ~tr.ok
                  /\ whisper_available' = avail
                  /\ whisper_warned' = (whisper_warned \/ warns)
                  /\ ntranscribe' = IF avail = "True" THEN ntranscribe + 1 ELSE ntranscribe
                  /\ wakeEvents' = IF avail = "True" /\ hit THEN wakeEvents + 1 ELSE wakeEvents
                  /\ lastFlush' = [seg |-> buf, wav |-> TRUE,
                                   framerate |-> sample_rate,
                                   probed |-> probed, warned |-> warns,
                                   transcribed |-> (avail = "True" /\ tr.ok),
                                   text |-> text,
                                   fired |-> (avail = "True" /\ hit),
                                   swallowed |-> IF avail = "True" /\ ~tr.ok
                                                 THEN "transcribe" ELSE "none"]
                  /\ UNCHANGED tempLeaked

\* _listen_loop, line 159: the `while self.is_listening` test
WCheck(w) ==
    /\ wpc[w] = "top"
    /\ IF LoopContinues
       THEN /\ wpc' = [wpc EXCEPT ![w] = "read"]
            /\ resumed' = IF w \in stale THEN resumed \cup {w} ELSE resumed
       ELSE /\ wpc' = [wpc EXCEPT ![w] = "exited"]
            /\ UNCHANGED resumed
    /\ raised' = [raised EXCEPT ![w] = "none"]
    /\ UNCHANGED <<fieldVars, deviceVars, callerVars, loopVars, wakeVars, ttsVars>>
    /\ UNCHANGED <<audio_buffer, speech_detected, chunk, streak, stale>>

\* _listen_loop, line 162: self.stream.read() returns the device's next chunk
WReadChunk(w) ==
    /\ wpc[w] = "read"
    /\ stream \in openStreams
    /\ readsLeft > 0
    /\ \/ \E sp \in BOOLEAN :
            LET inRun == runs # <<>> /\ runs[Len(runs)].last = nread
            IN  /\ IF sp
                   THEN /\ UNCHANGED silences
                        /\ IF inRun
                           THEN runs' = [runs EXCEPT ![Len(runs)].last = nread + 1]
                           ELSE /\ runsLeft > 0
                                /\ runs' = Append(runs, [first |-> nread + 1, last |-> nread + 1])
                        /\ runsLeft' = IF inRun THEN runsLeft ELSE runsLeft - 1
                   ELSE /\ silences < MaxSilence
                        /\ silences' = silences + 1
                        /\ UNCHANGED <<runs, runsLeft>>
                /\ chunk' = [chunk EXCEPT ![w] = [id |-> nread + 1, speech |-> sp, bad |-> FALSE]]
                /\ UNCHANGED badLeft
       \/ /\ badLeft > 0
          /\ badLeft' = badLeft - 1
          /\ chunk' = [chunk EXCEPT ![w] = [id |-> nread + 1, speech |-> FALSE, bad |-> TRUE]]
          /\ UNCHANGED <<runs, runsLeft, silences>>
    /\ nread' = nread + 1
    /\ readsLeft' = readsLeft - 1
    /\ wpc' = [wpc EXCEPT ![w] = "proc"]
    /\ streak' = [streak EXCEPT ![w] = 0]
    /\ UNCHANGED <<fieldVars, nstreams, openStreams, failsLeft, callerVars>>
    /\ UNCHANGED <<loopVars, wakeVars, ttsVars>>
    /\ UNCHANGED <<audio_buffer, speech_detected, raised, stale, resumed>>

\* _listen_loop, lines 162 and 182-184: self.stream.read() raises (self.stream is
\* None, the stream is closed, or the device fails on an open stream). The handler
\* logs the exception and sleeps; it calls no callback.
WReadFails(w) ==
    /\ wpc[w] = "read"
    /\ IF stream \in openStreams
       THEN failsLeft > 0 /\ failsLeft' = failsLeft - 1
       ELSE UNCHANGED failsLeft
    /\ Caught(w, "read")
    /\ streak' = [streak EXCEPT ![w] = @ + 1]
    /\ UNCHANGED <<fieldVars, nstreams, openStreams, nread, readsLeft, badLeft>>
    /\ UNCHANGED <<runs, runsLeft, silences, callerVars, loopVars, wakeVars, ttsVars>>
    /\ UNCHANGED <<audio_buffer, speech_detected, chunk, stale, resumed>>

\* _listen_loop, line 184: time.sleep(0.1) returns
WBackoff(w) ==
    /\ wpc[w] = "backoff"
    /\ wpc' = [wpc EXCEPT ![w] = "top"]
    /\ UNCHANGED <<fieldVars, deviceVars, callerVars, loopVars, wakeVars, ttsVars>>
    /\ UNCHANGED <<audio_buffer, speech_detected, chunk, raised, streak, stale, resumed>>

\* _listen_loop, lines 165-184: classify the chunk, append or flush, limit the
\* buffer. An on_speech_detected callback that raises ends the iteration at the
\* handler of line 182, before the buffer is limited; a classifier that raises
\* ends it there before anything is done with the chunk. What is raised inside
\* _process_speech_buffer is swallowed there and the iteration goes on.
WProcess(w) ==
    /\ wpc[w] = "proc"
    /\ LET c == chunk[w]
           buf == audio_buffer[w]
           sd == speech_detected[w]
       IN  IF ClassifyRaises(c)
           THEN /\ Caught(w, "classify")
                /\ UNCHANGED <<whisper_available, whisper_warned>>
                /\ UNCHANGED <<audio_buffer, speech_detected, loopVars>>
           ELSE IF IsSpeech(c)
           THEN /\ \E cbRaises \in BOOLEAN :
                     IF cbRaises
                     THEN /\ audio_buffer' = [audio_buffer EXCEPT ![w] = AppendChunk(buf, c)]
                          /\ Caught(w, "callback")
                     ELSE /\ audio_buffer' = [audio_buffer EXCEPT ![w] =
                                                LimitBuffer(AppendChunk(buf, c))]
                          /\ Completed(w, "none")
                /\ speech_detected' = [speech_detected EXCEPT ![w] = TRUE]
                /\ speechEvents' = speechEvents + 1
                /\ UNCHANGED <<whisper_available, whisper_warned>>
                /\ UNCHANGED <<flushes, lastFlush, ntranscribe, wakeEvents, tempLeaked, loopReports>>
           ELSE IF SpeechEnded(sd, buf)
           THEN /\ ProcessSpeechBuffer(buf)
                /\ Completed(w, lastFlush'.swallowed)
                /\ audio_buffer' = [audio_buffer EXCEPT ![w] = LimitBuffer(<<>>)]
                /\ speech_detected' = [speech_detected EXCEPT ![w] = FALSE]
                /\ UNCHANGED speechEvents
           ELSE /\ Completed(w, "none")
                /\ audio_buffer' = [audio_buffer EXCEPT ![w] = LimitBuffer(buf)]
                /\ UNCHANGED <<whisper_available, whisper_warned, speech_detected>>
                /\ UNCHANGED loopVars
    /\ UNCHANGED <<wake_words, sample_rate, vad, is_listening, permission_granted, stream>>
    /\ UNCHANGED <<deviceVars, callerVars, chunk, streak, stale, resumed, wakeVars, ttsVars>>

(***************************************************************************)
(* TTSEngineManager: helpers                                               *)
(***************************************************************************)
Threads == {1, 2}

\* a get_engine that knows every name it is given
Backends_AnyName == {"coqui", "bark", "piper", "unknown"}

\* the names get_engine knows
Backends == {"coqui", "bark", "piper"}

\* the engine names a caller may pass
EngineNames == Backends \cup {"unknown"}

\* the engines with a lazily loaded model (_load_model); PiperEngine has none
Lazy == {"coqui", "bark"}

\* voice_models.py: some keys of XTTS_SPEAKERS, VCTK_BRITISH_VOICES, BARK_SPEAKERS
\* and PIPER_MODELS
XTTS_SPEAKERS == {"Emily"}
VCTK_BRITISH_VOICES == {"vctk_p243"}
BARK_SPEAKERS == {"v2/en_speaker_0", "v2/en_speaker_2"}
PIPER_MODELS == {"en_GB_alba_medium", "en_GB_cori_medium"}

\* the voice_id arguments of the model: "none" is None (the parameter's default),
\* "not-in-catalog" is in no dictionary
VoiceIds ==
    {"none", "not-in-catalog"} \cup XTTS_SPEAKERS \cup VCTK_BRITISH_VOICES
        \cup BARK_SPEAKERS \cup PIPER_MODELS

\* the clone_voice_path arguments: None, a path with no file, the path of a file
ClonePaths == {"none", "missing", "exists"}

\* engines that all look voice_id up in XTTS_SPEAKERS
Catalog_XttsOnly(e) == XTTS_SPEAKERS

\* the dictionary each engine's synthesize looks voice_id up in
Catalog(e) ==
    CASE e = "coqui" -> XTTS_SPEAKERS
      [] e = "bark"  -> BARK_SPEAKERS
      [] e = "piper" -> PIPER_MODELS
      [] OTHER       -> {}

\* a coqui engine that clones from any path given, with or without a file
Voice_CloneAnyPath(e, v, cl) ==
    CASE e = "coqui" -> IF cl # "none" THEN "clone"
                        ELSE IF v \in XTTS_SPEAKERS THEN v ELSE "default"
      [] e = "bark"  -> IF v \in BARK_SPEAKERS THEN v ELSE "v2/en_speaker_2"
      [] e = "piper" -> IF v = "none" THEN "en_GB_cori_medium"
                        ELSE IF v \in PIPER_MODELS THEN v ELSE "ValueError"
      [] OTHER       -> "default"

\* the voice each engine's synthesize speaks with, given voice_id and
\* clone_voice_path: "clone" is the speaker_wav branch of CoquiEngine, "default"
\* its branch without a speaker; "ValueError" is the raise of _download_model
Voice(e, v, cl) ==
    CASE e = "coqui" -> IF cl # "none" /\ cl = "exists" THEN "clone"
                        ELSE IF v # "none" /\ v \in Catalog(e) THEN v ELSE "default"
      [] e = "bark"  -> IF v # "none" /\ v \in Catalog(e) THEN v ELSE "v2/en_speaker_2"
      [] e = "piper" -> LET id == IF v = "none" THEN "en_GB_cori_medium" ELSE v
                        IN  IF id \notin Catalog(e) THEN "ValueError" ELSE id
      [] OTHER       -> "default"

\* the exceptions the engines and get_engine raise
Exceptions == {"ValueError", "ImportError", "Exception"}

\* a speak() whose handler catches ValueError only
Catches_ValueErrorOnly(exc) == exc = "ValueError"

\* speak: `except Exception as e`; every exception of the model derives from it
Catches(exc) == exc \in Exceptions

\* a finally that deletes the temporary file only when synthesis succeeded
Finally_OnSuccess(c, ok) == IF ok THEN [c EXCEPT !.temp = 0] ELSE c

\* synthesize: `finally: if os.path.exists(output_path): os.unlink(output_path)`
Finally(c, ok) == [c EXCEPT !.temp = 0]

NoSpeak ==
    [engine |-> "unknown", voice |-> "none", clone |-> "none", inst |-> 0,
     used |-> "none", temp |-> 0, exc |-> "none", ret |-> "none"]

\* every combination of arguments
AllRequests ==
    {[engine |-> e, voice |-> v, clone |-> cl] :
        e \in EngineNames, v \in VoiceIds, cl \in ClonePaths}

\* speak(text, engine) with the other parameters left at their defaults
EngineOnlyRequests ==
    {[engine |-> e, voice |-> "none", clone |-> "none"] : e \in EngineNames}

\* TTSEngineManager.__init__: self.engines = {}
ManagerConstructed ==
    /\ engines = [b \in Backends |-> 0]
    /\ instBackend = <<>>
    /\ model = <<>>
    /\ models_downloaded = <<>>
    /\ piper_files = {}
    /\ loadStarts = [b \in Backends |-> 0]
    /\ loadFails = [b \in Backends |-> 0]
    /\ synthFails = [b \in Backends |-> 0]
    /\ tpc = [t \in Threads |-> "idle"]
    /\ tcall = [t \in Threads |-> NoSpeak]

\* a get_engine that finds no engine cached
EngineMissing_Always(name) == TRUE

\* get_engine: `if engine_name not in self.engines`
EngineMissing(name) == engines[name] = 0

\* a _load_model that finds no model loaded
ModelMissing_Always(i) == TRUE

\* _load_model: `if self.model is None`
ModelMissing(i) == model[i] = "None"

\* a failed load that unloads the models of all engines
LoadFailed_UnloadsAll(m, i) == [j \in DOMAIN m |-> "None"]

\* _load_model raises: the models after the failed load of instance i, whose
\* self.model was not assigned and stays None
LoadFailed(m, i) == [m EXCEPT ![i] = "None"]

\* the synthesis failures counted after a step of synthesize that left the call
\* record c: one more for c's engine if an exception was raised
SynthesisEnded(n, c) ==
    IF c.exc = "none" THEN n ELSE [n EXCEPT ![c.engine] = @ + 1]

(***************************************************************************)
(* The listener: specifications                                            *)
(***************************************************************************)
NoCall ==
    [op |-> "none", ret |-> "None", wasListening |-> FALSE, hadPerm |-> FALSE,
     afterStop |-> FALSE, perm |-> "skipped", open |-> "skipped", launch |-> "skipped",
     probes |-> 0, opened |-> 0, launched |-> 0, errors |-> 0]

\* WakeWordDetector.__init__(wake_words=cfg); nothing has run yet. text is the
\* text the next _contains_wake_word call is given.
Constructed(cfg, text) ==
    /\ wakeCfg = cfg
    /\ wake_words = InitWakeWords(cfg)
    /\ sample_rate = DefaultSampleRate
    /\ is_listening = FALSE
    /\ permission_granted = FALSE
    /\ stream = 0
    /\ whisper_available = "None"
    /\ whisper_warned = FALSE
    /\ nstreams = 0 /\ openStreams = {}
    /\ nread = 0 /\ runs = <<>> /\ silences = 0
    /\ cpc = "idle" /\ call = NoCall /\ everStopped = FALSE
    /\ wpc = [w \in Workers |-> "none"]
    /\ audio_buffer = [w \in Workers |-> <<>>]
    /\ speech_detected = [w \in Workers |-> FALSE]
    /\ chunk = [w \in Workers |-> NoChunk]
    /\ raised = [w \in Workers |-> "none"]
    /\ streak = [w \in Workers |-> 0]
    /\ stale = {} /\ resumed = {}
    /\ flushes = <<>> /\ lastFlush = NoFlush
    /\ speechEvents = 0 /\ ntranscribe = 0 /\ wakeEvents = 0 /\ tempLeaked = 0
    /\ loopReports = 0
    /\ lastText = text /\ lastMatch = "none"

Init ==
    /\ Constructed(DefaultWakeWords, <<>>)
    /\ ManagerConstructed
    /\ opsLeft = LifeOps
    /\ readsLeft = LifeReads
    /\ badLeft = LifeBad
    /\ failsLeft = 0
    /\ runsLeft = MaxRuns
    /\ vad = FALSE
    /\ callsLeft = [t \in Threads |-> 0]
    /\ requests = EngineOnlyRequests

WorkerStep(w) ==
    WCheck(w) \/ WReadChunk(w) \/ WReadFails(w) \/ WBackoff(w) \/ WProcess(w)

Next ==
    \/ RequestPermissionCall
    \/ StartBegin
    \/ StartOpen
    \/ StartLaunch
    \/ StopFlag
    \/ StopClose
    \/ \E w \in Workers : WorkerStep(w)

Spec == Init /\ [][Next]_vars


\* The listener right after its first start_continuous_listening() returned True:
\* the throwaway stream 1 of the permission request is closed, the persistent
\* stream 2 is open and worker 1 is about to test the flag.
Started ==
    /\ wakeCfg = DefaultWakeWords
    /\ wake_words = InitWakeWords(wakeCfg)
    /\ is_listening = TRUE
    /\ permission_granted = TRUE
    /\ stream = 2
    /\ whisper_available = "None"
    /\ whisper_warned = FALSE
    /\ nstreams = 2 /\ openStreams = {2}
    /\ nread = 0 /\ runs = <<>> /\ silences = 0
    /\ cpc = "idle" /\ everStopped = FALSE
    /\ call = [NoCall EXCEPT !.op = "start", !.ret = "True", !.perm = "ok",
                             !.open = "ok", !.launch = "ok",
                             !.probes = 1, !.opened = 1, !.launched = 1]
    /\ wpc = [w \in Workers |-> IF w = 1 THEN "top" ELSE "none"]
    /\ audio_buffer = [w \in Workers |-> <<>>]
    /\ speech_detected = [w \in Workers |-> FALSE]
    /\ chunk = [w \in Workers |-> NoChunk]
    /\ raised = [w \in Workers |-> "none"]
    /\ streak = [w \in Workers |-> 0]
    /\ stale = {} /\ resumed = {}
    /\ flushes = <<>> /\ lastFlush = NoFlush
    /\ speechEvents = 0 /\ ntranscribe = 0 /\ wakeEvents = 0 /\ tempLeaked = 0
    /\ loopReports = 0
    /\ lastText = <<>> /\ lastMatch = "none"

\* SpecLoop: that one worker over a long chunk stream, and one stop call
InitLoop ==
    /\ Started
    /\ ManagerConstructed
    /\ opsLeft = 1
    /\ readsLeft = LoopReads
    /\ badLeft = 0
    /\ failsLeft = 0
    /\ runsLeft = MaxRuns
    /\ vad = FALSE
    /\ sample_rate = DefaultSampleRate
    /\ callsLeft = [t \in Threads |-> 0]
    /\ requests = EngineOnlyRequests

NextLoop ==
    \/ StopFlag
    \/ StopClose
    \/ \E w \in Workers : WorkerStep(w)

SpecLoop == InitLoop /\ [][NextLoop]_vars

\* SpecFaults: that worker on a device that fails reads on the open stream and
\* delivers chunks the classifier raises on; the listener was constructed with
\* webrtcvad (self.vad set) or without it, with the default sample_rate or with
\* the rate of the audio manager
InitFaults ==
    /\ Started
    /\ ManagerConstructed
    /\ opsLeft = 1
    /\ readsLeft = LifeReads
    /\ badLeft = LifeBad
    /\ failsLeft = MaxFails
    /\ runsLeft = MaxRuns
    /\ vad \in BOOLEAN
    /\ sample_rate \in {DefaultSampleRate, ManagerSampleRate}
    /\ callsLeft = [t \in Threads |-> 0]
    /\ requests = EngineOnlyRequests

NextFaults == NextLoop

SpecFaults == InitFaults /\ [][NextFaults]_vars

\* SpecSegments: that worker over a few chunks that hold several speech runs
InitSegments ==
    /\ Started
    /\ ManagerConstructed
    /\ opsLeft = 1
    /\ readsLeft = SegReads
    /\ badLeft = 0
    /\ failsLeft = 0
    /\ runsLeft = SegRuns
    /\ vad = FALSE
    /\ sample_rate = DefaultSampleRate
    /\ callsLeft = [t \in Threads |-> 0]
    /\ requests = EngineOnlyRequests

NextSegments == NextLoop

SpecSegments == InitSegments /\ [][NextSegments]_vars


(***************************************************************************)
(* _contains_wake_word on its own (SpecWake)                               *)
(***************************************************************************)
WakeAlphabet == {"a", "A", "b"}

\* the strings over the alphabet of length 0..n
StringsUpTo(n) == UNION {[1..k -> WakeAlphabet] : k \in 0..n}

\* the constructor's wake_words argument: one phrase or two
WakeConfigs ==
    LET P == StringsUpTo(MaxPhraseLen)
    IN  {<<p>> : p \in P} \cup {<<p, q>> : p \in P, q \in P}

InitWake ==
    /\ \E cfg \in WakeConfigs, text \in StringsUpTo(MaxTextLen) : Constructed(cfg, text)
    /\ ManagerConstructed
    /\ opsLeft = 0
    /\ readsLeft = 0
    /\ badLeft = 0
    /\ failsLeft = 0
    /\ runsLeft = MaxRuns
    /\ vad = FALSE
    /\ callsLeft = [t \in Threads |-> 0]
    /\ requests = EngineOnlyRequests

\* a call of _contains_wake_word(text), on the text drawn
Match ==
    /\ lastMatch' = IF ContainsWakeWord(wake_words, lastText) THEN "True" ELSE "False"
    /\ UNCHANGED <<listenerVars, wakeCfg, lastText, ttsVars>>

NextWake == Match

SpecWake == InitWake /\ [][NextWake]_vars

(***************************************************************************)
(* TTSEngineManager.speak (SpecTTS: two threads; SpecVoice: one caller)    *)
(***************************************************************************)
\* speak() is left with the call record c
Return(t, c) ==
    /\ tpc' = [tpc EXCEPT ![t] = "idle"]
    /\ tcall' = [tcall EXCEPT ![t] = c]

\* speak() returns r: the encoded audio
Returned(c, r) == [c EXCEPT !.ret = r]

\* exc is raised inside speak()'s try block: the handler returns None
Raised(c, exc) == [c EXCEPT !.exc = exc, !.ret = IF Catches(exc) THEN "None" ELSE "raised"]

\* speak(text, engine, voice_id, clone_voice_path) is called
SpeakBegin(t) ==
    /\ tpc[t] = "idle" /\ callsLeft[t] > 0
    /\ callsLeft' = [callsLeft EXCEPT ![t] = callsLeft[t] - 1]
    /\ \E r \in requests :
         tcall' = [tcall EXCEPT ![t] =
                     [NoSpeak EXCEPT !.engine = r.engine, !.voice = r.voice,
                                     !.clone = r.clone, !.ret = "pending"]]
    /\ tpc' = [tpc EXCEPT ![t] = "check"]
    /\ UNCHANGED <<engines, instBackend, model, loadStarts, loadFails, synthFails, requests>>
    /\ UNCHANGED piperVars
    /\ UNCHANGED <<listenerVars, wakeVars>>

\* get_engine, lines 34-42: the membership test; an unknown name raises ValueError,
\* which speak() catches and turns into None
GetEngineCheck(t) ==
    /\ tpc[t] = "check"
    /\ LET name == tcall[t].engine
       IN  IF name \notin Backends
           THEN Return(t, Raised(tcall[t], "ValueError"))
           ELSE /\ tpc' = [tpc EXCEPT ![t] = IF EngineMissing(name) THEN "create" ELSE "fetch"]
                /\ UNCHANGED tcall
    /\ UNCHANGED <<engines, instBackend, model, loadStarts, loadFails, synthFails, callsLeft, requests>>
    /\ UNCHANGED piperVars
    /\ UNCHANGED <<listenerVars, wakeVars>>

\* get_engine, lines 35-40: self.engines[engine_name] = <a new engine>
CreateEngine(t) ==
    /\ tpc[t] = "create"
    /\ instBackend' = Append(instBackend, tcall[t].engine)
    /\ model' = Append(model, "None")
    /\ models_downloaded' = Append(models_downloaded, {})
    /\ engines' = [engines EXCEPT ![tcall[t].engine] = Len(instBackend) + 1]
    /\ tpc' = [tpc EXCEPT ![t] = "fetch"]
    /\ UNCHANGED piper_files
    /\ UNCHANGED <<loadStarts, loadFails, synthFails, tcall, callsLeft, requests>>
    /\ UNCHANGED <<listenerVars, wakeVars>>

\* get_engine, line 44: return self.engines[engine_name]
FetchEngine(t) ==
    /\ tpc[t] = "fetch"
    /\ tcall' = [tcall EXCEPT ![t].inst = engines[tcall[t].engine]]
    /\ tpc' = [tpc EXCEPT ![t] = IF tcall[t].engine \in Lazy THEN "load_check" ELSE "synth"]
    /\ UNCHANGED <<engines, instBackend, model, loadStarts, loadFails, synthFails, callsLeft, requests>>
    /\ UNCHANGED piperVars
    /\ UNCHANGED <<listenerVars, wakeVars>>

\* _load_model: the `self.model is None` test; a load begins when it passes
LoadCheck(t) ==
    /\ tpc[t] = "load_check"
    /\ IF ModelMissing(tcall[t].inst)
       THEN /\ tpc' = [tpc EXCEPT ![t] = "loading"]
            /\ loadStarts' = [loadStarts EXCEPT ![tcall[t].engine] = @ + 1]
       ELSE /\ tpc' = [tpc EXCEPT ![t] = "synth"]
            /\ UNCHANGED loadStarts
    /\ UNCHANGED <<engines, instBackend, model, loadFails, synthFails, tcall, callsLeft, requests>>
    /\ UNCHANGED piperVars
    /\ UNCHANGED <<listenerVars, wakeVars>>

\* _load_model: the load ends; it sets self.model, or raises (self.model stays
\* None) and speak() returns None
LoadEnd(t) ==
    /\ tpc[t] = "loading"
    /\ \/ /\ model' = [model EXCEPT ![tcall[t].inst] = "loaded"]
          /\ tpc' = [tpc EXCEPT ![t] = "synth"]
          /\ UNCHANGED <<tcall, loadFails, synthFails>>
       \/ /\ \E exc \in {"ImportError", "Exception"} : Return(t, Raised(tcall[t], exc))
          /\ loadFails' = [loadFails EXCEPT ![tcall[t].engine] = @ + 1]
          /\ model' = LoadFailed(model, tcall[t].inst)
          /\ UNCHANGED synthFails
    /\ UNCHANGED <<engines, instBackend, loadStarts, callsLeft, requests>>
    /\ UNCHANGED piperVars
    /\ UNCHANGED <<listenerVars, wakeVars>>

\* how the two urlretrieve calls of _download_model can end: both files fetched,
\* the first raises (no file), or the second raises (the model file is there)
DownloadOutcomes == {"ok", "model_error", "config_error"}

\* _download_model, lines 181-187: the voice is not recorded as downloaded and
\* `not model_path.exists()`, so the two files are fetched
NeedsDownload(i, v) == v \notin models_downloaded[i] /\ <<v, "model">> \notin piper_files

\* PIPER_DIR after the fetch of voice v ended as o
FilesAfter(files, v, o) ==
    CASE o = "ok"           -> files \cup {<<v, "model">>, <<v, "config">>}
      [] o = "config_error" -> files \cup {<<v, "model">>}
      [] OTHER              -> files

\* synthesize up to its try block: the voice is chosen (PiperEngine resolves the
\* default and _download_model raises ValueError on an unknown voice; it fetches
\* the model and config files unless the voice is recorded or the model file
\* exists, and records the voice unless a fetch raised; BarkEngine runs
\* generate_audio, which may raise) and the temporary output file is created
SynthesizeBegin(t) ==
    /\ tpc[t] = "synth"
    /\ LET c == tcall[t]
           v == Voice(c.engine, c.voice, c.clone)
       IN  IF v = "ValueError"
           THEN /\ Return(t, Raised(c, "ValueError"))
                /\ UNCHANGED piperVars
           ELSE IF c.engine = "piper"
           THEN \E o \in DownloadOutcomes :
                  LET fetches == NeedsDownload(c.inst, v)
                  IN  /\ ~fetches => o = "ok"
                      /\ piper_files' = IF fetches THEN FilesAfter(piper_files, v, o)
                                        ELSE piper_files
                      /\ models_downloaded' =
                            IF o = "ok"
                            THEN [models_downloaded EXCEPT ![c.inst] = @ \cup {v}]
                            ELSE models_downloaded
                      /\ IF o = "ok"
                         THEN /\ tcall' = [tcall EXCEPT ![t] = [c EXCEPT !.used = v, !.temp = 1]]
                              /\ tpc' = [tpc EXCEPT ![t] = "write"]
                         ELSE Return(t, Raised([c EXCEPT !.used = v], "Exception"))
           ELSE /\ \/ /\ tcall' = [tcall EXCEPT ![t] = [c EXCEPT !.used = v, !.temp = 1]]
                      /\ tpc' = [tpc EXCEPT ![t] = "write"]
                   \/ /\ c.engine = "bark"
                      /\ Return(t, Raised([c EXCEPT !.used = v], "Exception"))
                /\ UNCHANGED piperVars
    /\ synthFails' = SynthesisEnded(synthFails, tcall'[t])
    /\ UNCHANGED <<engines, instBackend, model, loadStarts, loadFails, callsLeft, requests>>
    /\ UNCHANGED <<listenerVars, wakeVars>>

\* synthesize, the try block and its finally: the audio is written to the
\* temporary file, read back and returned encoded, or an exception is raised and
\* speak() returns None; the finally clause runs either way
Synthesize(t) ==
    /\ tpc[t] = "write"
    /\ \E ok \in BOOLEAN :
         LET c == Finally(tcall[t], ok)
         IN  Return(t, IF ok THEN Returned(c, "audio") ELSE Raised(c, "Exception"))
    /\ synthFails' = SynthesisEnded(synthFails, tcall'[t])
    /\ UNCHANGED <<engines, instBackend, model, loadStarts, loadFails, callsLeft, requests>>
    /\ UNCHANGED piperVars
    /\ UNCHANGED <<listenerVars, wakeVars>>

SpeakStep(t) ==
    \/ SpeakBegin(t)
    \/ GetEngineCheck(t)
    \/ CreateEngine(t)
    \/ FetchEngine(t)
    \/ LoadCheck(t)
    \/ LoadEnd(t)
    \/ SynthesizeBegin(t)
    \/ Synthesize(t)

NextTTS == \E t \in Threads : SpeakStep(t)

\* two threads, each calling speak(text, engine)
InitTTS ==
    /\ Constructed(DefaultWakeWords, <<>>)
    /\ ManagerConstructed
    /\ opsLeft = 0
    /\ readsLeft = 0
    /\ badLeft = 0
    /\ failsLeft = 0
    /\ runsLeft = MaxRuns
    /\ vad = FALSE
    /\ callsLeft = [t \in Threads |-> MaxCalls]
    /\ requests = EngineOnlyRequests

SpecTTS == InitTTS /\ [][NextTTS]_vars

\* one caller, passing every combination of engine, voice_id and clone_voice_path
InitVoice ==
    /\ Constructed(DefaultWakeWords, <<>>)
    /\ ManagerConstructed
    /\ opsLeft = 0
    /\ readsLeft = 0
    /\ badLeft = 0
    /\ failsLeft = 0
    /\ runsLeft = MaxRuns
    /\ vad = FALSE
    /\ callsLeft = [t \in Threads |-> IF t = 1 THEN MaxCalls ELSE 0]
    /\ requests = AllRequests

NextVoice == NextTTS

SpecVoice == InitVoice /\ [][NextVoice]_vars

(***************************************************************************)
(* Properties of the listener's life cycle (Spec)                          *)
(***************************************************************************)
AliveWorkers == {w \in Workers : Alive(w)}

StartReturned == cpc = "idle" /\ call.op = "start"

\* C2: stop_continuous_listening() clears the flag before it closes the stream,
\* a worker that was alive when the flag was cleared finishes at most the
\* iteration in flight (it never begins another one), and every stop call, the
\* second one and the one on a listener never started included, returns without
\* raising and leaves the listener not listening.
C2_StopEndsWorker ==
    /\ cpc = "stop_close" => ~is_listening
    /\ resumed = {}
    /\ (cpc = "idle" /\ call.op = "stop") => (call.ret = "None" /\ ~is_listening)

\* C3: at most one worker thread of the listener is alive at any time.
C3_OneWorker == Cardinality(AliveWorkers) <= 1

C5_StartWhileListeningIsNoOp ==
    (StartReturned /\ call.wasListening)
        => /\ call.ret = "True"
           /\ call.probes = 0 /\ call.opened = 0 /\ call.launched = 0
           /\ permission_granted = call.hadPerm
           /\ is_listening

RunChunks(r) == [i \in 1..(r.last - r.first + 1) |-> r.first + i - 1]

RunLen(r) == r.last - r.first + 1

\* every chunk delivered so far has been through the loop body
AllProcessed == wpc[1] # "proc"

\* C7: while every chunk delivered was classified as silence, nothing was flushed,
\* transcribe was never called and no speech-activity or wake-word event fired.
C7_AllSilence ==
    runs = <<>>
        => /\ flushes = <<>> /\ lastFlush = NoFlush
           /\ ntranscribe = 0
           /\ speechEvents = 0 /\ wakeEvents = 0

C7_Witness ==
    /\ runs = <<>> /\ nread >= 1 /\ wpc[1] = "top"
    /\ flushes = <<>>

\* C8 as stated: when the worker has ended and the chunks it read hold exactly one
\* speech run, shorter than 50, it made exactly one flush, of that run's chunks.
C8_OneRunOneFlush ==
    (wpc[1] = "exited" /\ Len(runs) = 1 /\ RunLen(runs[1]) < MaxBuffer)
        => flushes = << RunChunks(runs[1]) >>

\* C8 as amended: with exactly one speech run, shorter than 50, among the chunks
\* processed, the loop has made exactly one flush, of exactly that run's chunks in
\* read order, once a silence chunk has followed the run, and no flush before that.
C8_OneRunFlushedAtSilence ==
    (AllProcessed /\ Len(runs) = 1 /\ RunLen(runs[1]) < MaxBuffer)
        => IF runs[1].last < nread
           THEN flushes = << RunChunks(runs[1]) >>
           ELSE flushes = <<>>

C8_Witness ==
    /\ AllProcessed /\ Len(runs) = 1 /\ runs[1].last < nread
    /\ RunLen(runs[1]) = 3
    /\ flushes = << RunChunks(runs[1]) >>

\* C9: at the end of every iteration inside a speech run of N > 50 chunks the
\* buffer holds exactly the run's last 50 chunks, N-49..N, in order.
C9_SlidingWindow ==
    (AllProcessed /\ runs # <<>> /\ runs[Len(runs)].last = nread
       /\ RunLen(runs[Len(runs)]) > MaxBuffer)
        => audio_buffer[1] = [i \in 1..MaxBuffer |-> nread - MaxBuffer + i]


(***************************************************************************)
(* Properties of _contains_wake_word (SpecWake)                            *)
(***************************************************************************)
\* two characters that differ at most in case
SameLetter(x, y) == x = y \/ {x, y} = {"a", "A"}

\* text holds phrase at some offset, letter for letter, whatever the case
HoldsIgnoringCase(phrase, text) ==
    \E off \in 0..(Len(text) - Len(phrase)) :
        \A k \in 1..Len(phrase) : SameLetter(text[off + k], phrase[k])

\* "please say Hey Assistant now"
PleaseSayHeyAssistantNow ==
    <<"p","l","e","a","s","e"," ","s","a","y"," ","H","e","y"," ",
      "A","s","s","i","s","t","a","n","t"," ","n","o","w">>

\* "hey there"
HeyThere == <<"h","e","y"," ","t","h","e","r","e">>

\* C10: _contains_wake_word(text) is true exactly when some phrase given to the
\* constructor occurs in the text as a contiguous substring, compared letter by
\* letter without regard to case, wherever in the text it starts; with the wake
\* set {"hey assistant"}, "please say Hey Assistant now" matches and "hey there"
\* does not.
C10_CaseInsensitiveSubstring ==
    /\ lastMatch # "none"
         => (lastMatch = "True"
               <=> \E i \in 1..Len(wakeCfg) : HoldsIgnoringCase(wakeCfg[i], lastText))
    /\ ContainsWakeWord(InitWakeWords(<<DefaultWakeWords[1]>>), PleaseSayHeyAssistantNow)
    /\ ~ContainsWakeWord(InitWakeWords(<<DefaultWakeWords[1]>>), HeyThere)

C10_Witness ==
    /\ lastMatch = "True"
    /\ Len(wakeCfg) = 1 /\ Len(wakeCfg[1]) = 2 /\ Len(lastText) = 3
    /\ wakeCfg[1] # Lower(wakeCfg[1])
    /\ lastText # Lower(lastText)
    /\ ~StrIn(wakeCfg[1], lastText)
    /\ SubSeq(Lower(lastText), 2, 3) = Lower(wakeCfg[1])

(***************************************************************************)
(* Properties of TTSEngineManager.speak under concurrency (SpecTTS)        *)
(***************************************************************************)
\* the engine instances created for backend b
InstancesOf(b) == {i \in 1..Len(instBackend) : instBackend[i] = b}

\* no thread is past its first speak() call
FirstCallsOnly == \A t \in Threads : callsLeft[t] >= MaxCalls - 1

\* C1: while the two threads make their first speak() calls, every backend has at
\* most one engine instance and at most one model load was begun for it, and two
\* calls for the same backend that hold an engine hold the same one.
C1_OneLoadPerBackend ==
    FirstCallsOnly
        => /\ \A b \in Backends :
                /\ Cardinality(InstancesOf(b)) <= 1
                /\ loadStarts[b] <= 1
           /\ \A t, u \in Threads :
                (tcall[t].engine = tcall[u].engine /\ tcall[t].inst # 0 /\ tcall[u].inst # 0)
                    => tcall[t].inst = tcall[u].inst

(***************************************************************************)
(* Properties of one caller's speak() calls (SpecVoice)                    *)
(***************************************************************************)
\* the engine names of the three backends
Registered == {"coqui", "bark", "piper"}

\* a speak() call was made by t, and has returned
Called(t) == tcall[t].ret # "none"
SpeakReturned(t) == Called(t) /\ tpc[t] = "idle"

\* C11: a speak() call whose engine name is none of the registered backends
\* never gets past the lookup: it holds no engine and creates no temporary file,
\* it returns None (it neither returns audio nor raises), and from its entry to
\* its return no engine instance is created, no model load is begun and the
\* engines table and the models stay as they were.
C11_UnknownBackend ==
    /\ [](\A t \in Threads :
            (Called(t) /\ tcall[t].engine \notin Registered)
                => /\ tpc[t] \in {"check", "idle"}
                   /\ tcall[t].inst = 0 /\ tcall[t].temp = 0 /\ tcall[t].used = "none"
                   /\ tpc[t] = "idle" => (tcall[t].ret = "None" /\ tcall[t].exc = "ValueError"))
    /\ [][(Called(1)' /\ tcall'[1].engine \notin Registered)
            => UNCHANGED <<engines, instBackend, model, loadStarts, loadFails>>]_vars

C11_Witness ==
    /\ SpeakReturned(1) /\ tcall[1].engine = "unknown" /\ tcall[1].ret = "None"
    /\ callsLeft[1] = 0
    /\ engines["coqui"] # 0

\* the voice each backend speaks with when it is given none: CoquiEngine calls
\* the model without a speaker, BarkEngine and PiperEngine name a voice
DefaultVoice(e) ==
    CASE e = "coqui" -> "default"
      [] e = "bark"  -> "v2/en_speaker_2"
      [] e = "piper" -> "en_GB_cori_medium"

\* the voices each backend's own dictionary holds
KnownVoices(e) ==
    CASE e = "coqui" -> {"Emily"}
      [] e = "bark"  -> {"v2/en_speaker_0", "v2/en_speaker_2"}
      [] e = "piper" -> {"en_GB_alba_medium", "en_GB_cori_medium"}

\* C12: a speak() call on a registered backend whose voice_id is absent or not in
\* the backend's catalog (and that is not cloning) does not fail because of the
\* voice, and when it synthesizes it does so with the backend's default voice.
C12_DefaultVoice ==
    \A t \in Threads :
        LET c == tcall[t]
        IN  (Called(t) /\ c.engine \in Registered /\ c.clone = "none"
               /\ c.voice \notin KnownVoices(c.engine))
                => /\ c.exc # "ValueError"
                   /\ c.used \in {"none", DefaultVoice(c.engine)}

\* C13: speak() never raises: every call that has returned returned audio or
\* None, and a call in which an exception was raised, whatever its kind and
\* wherever it arose, has returned None.
C13_NeverRaises ==
    \A t \in Threads :
        /\ tcall[t].ret \in {"none", "pending", "audio", "None"}
        /\ tcall[t].exc # "none" => (tpc[t] = "idle" /\ tcall[t].ret = "None")
        /\ SpeakReturned(t) => tcall[t].ret \in {"audio", "None"}

C13_Witness ==
    /\ SpeakReturned(1) /\ tcall[1].ret = "None"
    /\ tcall[1].exc = "ImportError"
    /\ tcall[1].engine = "bark"

\* C14: a speak() call that has returned has left no temporary file behind.
C14_NoTempFiles == \A t \in Threads : tpc[t] = "idle" => tcall[t].temp = 0

C14_Witness ==
    /\ SpeakReturned(1) /\ tcall[1].engine = "coqui"
    /\ tcall[1].used # "none" /\ tcall[1].exc = "Exception"
    /\ tcall[1].temp = 0

\* C15: once a model load of a backend has failed, no load of that backend is
\* begun again and no call for it returns audio.
C15_FailedLoadIsTerminal ==
    [][\A b \in Registered :
         loadFails[b] > 0
            => /\ loadStarts'[b] = loadStarts[b]
               /\ \A t \in Threads :
                    (tcall'[t].engine = b /\ tcall'[t].ret = "audio") => tcall'[t] = tcall[t]]_vars

\* the voices get_all_voices lists for each engine
ListedVoices(e) ==
    CASE e = "coqui" -> {"Emily", "vctk_p243"}
      [] e = "bark"  -> {"v2/en_speaker_0", "v2/en_speaker_2"}
      [] e = "piper" -> {"en_GB_alba_medium", "en_GB_cori_medium"}

\* C17: a speak() call on a registered engine with a voice from that engine's
\* voice list returns None only because the model load, the download, the
\* generation or the synthesis raised (never a ValueError of the dispatcher's own
\* lookups), and returns audio otherwise.
C17_ListedVoiceSpeaks ==
    \A t \in Threads :
        LET c == tcall[t]
        IN  (SpeakReturned(t) /\ c.engine \in Registered /\ c.voice \in ListedVoices(c.engine))
                => /\ c.ret \in {"audio", "None"}
                   /\ c.ret = "None" <=> c.exc \in {"ImportError", "Exception"}
                   /\ c.ret = "audio" <=> c.exc = "none"

C17_Witness ==
    /\ SpeakReturned(1) /\ tcall[1].engine = "piper"
    /\ tcall[1].voice = "en_GB_alba_medium" /\ tcall[1].used = "en_GB_alba_medium"
    /\ tcall[1].ret = "audio"

StreamClosed == stream # 0 /\ stream \notin openStreams

\* worker w issues self.stream.read() in this step
IssuesRead(w) == wpc[w] = "read" /\ wpc'[w] # "read"

\* C16: no worker issues a read on the persistent stream once it is closed.
C16_NoReadAfterClose ==
    [][\A w \in Workers : IssuesRead(w) => ~StreamClosed]_vars

\* two characters that differ at most in case, over the letters of the texts
CaseBlind(x, y) == SameLetter(x, y) \/ {x, y} = {"h", "H"}

\* text holds phrase at some offset, letter for letter, whatever the case
OccursIgnoringCase(phrase, text) ==
    \E off \in 0..(Len(text) - Len(phrase)) :
        \A k \in 1..Len(phrase) : CaseBlind(text[off + k], phrase[k])

\* C19: the last flush fired on_wake_word exactly when its segment was
\* transcribed and the text holds one of the wake phrases, whatever the case; a
\* flush fires at most once, so there are never more wake-word events than
\* flushes or than transcriptions.
C19_WakeEventPerFlush ==
    /\ lastFlush.fired
         <=> /\ lastFlush.transcribed
             /\ \E i \in 1..Len(wakeCfg) : OccursIgnoringCase(wakeCfg[i], lastFlush.text)
    /\ wakeEvents <= Len(flushes)
    /\ wakeEvents <= ntranscribe
    /\ Len(flushes) = 1 => wakeEvents = (IF lastFlush.fired THEN 1 ELSE 0)

C19_Witness ==
    /\ Len(flushes) = 1 /\ lastFlush.fired /\ wakeEvents = 1
    /\ lastFlush.text # Lower(lastFlush.text)
    /\ Len(lastFlush.seg) = 2

\* an exception is raised in w's iteration in this step
Raises(w) == raised[w] = "none" /\ raised'[w] # "none"

\* w leaves _listen_loop in this step
LeavesLoop(w) == Alive(w) /\ ~Alive(w)'

\* C20 as stated: a worker leaves its loop only at the test of the listening
\* flag, with the flag cleared, after a stop; the flag is cleared by
\* stop_continuous_listening() alone; and a step in which a read failure, a
\* classification exception, a callback exception or a transcription exception
\* is raised takes the worker to the handler's backoff, from where it comes to
\* the next test of the flag.
C20_BacksOffAfterEveryError ==
    [][/\ \A w \in Workers :
            LeavesLoop(w) => (wpc[w] = "top" /\ ~is_listening /\ everStopped)
       /\ (is_listening /\ ~is_listening') => call'.op = "stop"
       /\ \A w \in Workers :
            (Raises(w) /\ raised'[w] \in {"read", "classify", "callback", "transcribe"})
                => wpc'[w] = "backoff"
       /\ \A w \in Workers :
            (wpc[w] = "backoff" /\ wpc'[w] # "backoff") => wpc'[w] = "top"]_vars

\* C20 as amended: a worker leaves its loop only at the test of the listening
\* flag, with the flag cleared, after a stop, and the flag is cleared by
\* stop_continuous_listening() alone. A read failure, a classification exception
\* and an on_speech_detected exception take the worker to the handler's backoff
\* and from there to the next test; an exception of the transcription (or of the
\* WAV writing) is swallowed inside the flush, and the worker finishes the
\* iteration and comes to the next test without a backoff.
C20_OnlyStopEndsLoop ==
    [][/\ \A w \in Workers :
            LeavesLoop(w) => (wpc[w] = "top" /\ ~is_listening /\ everStopped)
       /\ (is_listening /\ ~is_listening') => call'.op = "stop"
       /\ \A w \in Workers :
            (Raises(w) /\ raised'[w] \in {"read", "classify", "callback"})
                => wpc'[w] = "backoff"
       /\ \A w \in Workers :
            (Raises(w) /\ raised'[w] \in {"transcribe", "wav"})
                => (wpc'[w] = "top" /\ audio_buffer'[w] = <<>> /\ ~speech_detected'[w])
       /\ \A w \in Workers :
            (wpc[w] = "backoff" /\ wpc'[w] # "backoff") => wpc'[w] = "top"]_vars

\* a worker is back at the flag test, the listener still listening, after the
\* transcription of its flush raised
C20_Witness ==
    \E w \in Workers :
        /\ raised[w] = "transcribe" /\ wpc[w] = "top" /\ is_listening
        /\ Len(flushes) = 1 /\ audio_buffer[w] = <<>>

(***************************************************************************)
(* Properties of the worker on a failing device (SpecFaults)               *)
(***************************************************************************)
\* C21: once a worker has seen three read failures in a row, the loop has called
\* the error callback exactly once for them, and the worker is still in its loop
\* unless a stop has cleared the flag.
C21_ThreeFailuresReportedOnce ==
    \A w \in Workers :
        streak[w] >= 3
            => /\ loopReports = 1
               /\ (Alive(w) \/ ~is_listening)

\* w finishes the loop body on its chunk in this step
Processes(w) == wpc[w] = "proc" /\ wpc'[w] # "proc"

\* C28: self.vad never changes after construction; and with the primary
\* classifier a chunk on which vad.is_speech raises never takes the worker to the
\* loop's handler: the chunk is handled as a silence chunk is (no speech event,
\* nothing appended; the segment, if one is open, is flushed and the buffer
\* reset) and the worker comes to the next test of the flag.
C28_ClassifierFixedAndSafe ==
    /\ [][vad' = vad]_vars
    /\ [](\A w \in Workers : vad => raised[w] # "classify")
    /\ [][\A w \in Workers :
            (vad /\ Processes(w) /\ chunk[w].bad)
                => /\ wpc'[w] = "top"
                   /\ speechEvents' = speechEvents
                   /\ audio_buffer'[w] = IF speech_detected[w] THEN <<>> ELSE audio_buffer[w]
                   /\ ~speech_detected'[w]
                   /\ flushes' = IF speech_detected[w] /\ audio_buffer[w] # <<>>
                                 THEN Append(flushes, audio_buffer[w]) ELSE flushes]_vars

\* with the primary classifier, a chunk it raised on ended a speech run: the
\* segment was flushed and the worker goes on
C28_Witness ==
    /\ vad /\ chunk[1].bad /\ wpc[1] = "top" /\ is_listening
    /\ Len(flushes) = 1 /\ Len(flushes[1]) = 1 /\ audio_buffer[1] = <<>>
    /\ speechEvents = 1

(***************************************************************************)
(* Properties of the worker over several speech runs (SpecSegments)        *)
(***************************************************************************)
\* a flush is made in this step
Flushes == Len(flushes') = Len(flushes) + 1

\* C22: once a flush has found Whisper unavailable the listener stays so: no
\* later flush imports or loads it again or calls transcribe, the warning is
\* logged by the flush that found it and by no later one, no wake-word event
\* fires (none has fired before either, nothing having been transcribed), and
\* the worker keeps flushing its segments: each one is written, dropped, and the
\* buffer starts empty again.
C22_UnavailableIsPermanent ==
    /\ [](whisper_available = "False"
            => (whisper_warned /\ ntranscribe = 0 /\ wakeEvents = 0))
    /\ [][whisper_available = "False"
            => /\ whisper_available' = "False"
               /\ ntranscribe' = ntranscribe /\ wakeEvents' = wakeEvents
               /\ Flushes => /\ ~lastFlush'.probed /\ ~lastFlush'.warned
                              /\ ~lastFlush'.transcribed /\ ~lastFlush'.fired
                              /\ \A w \in Workers :
                                    wpc[w] = "proc" => (wpc'[w] = "top" /\ audio_buffer'[w] = <<>>)]_vars
    /\ [][(Flushes /\ lastFlush'.warned) => (whisper_available = "None" /\ ~whisper_warned)]_vars
    /\ [][whisper_warned => whisper_warned']_vars

\* a second segment was flushed after the first flush found Whisper unavailable
C22_Witness ==
    /\ Len(flushes) = 2 /\ whisper_available = "False" /\ whisper_warned
    /\ lastFlush.wav /\ ~lastFlush.probed /\ ~lastFlush.warned
    /\ ntranscribe = 0 /\ wakeEvents = 0
    /\ wpc[1] = "top" /\ audio_buffer[1] = <<>> /\ is_listening

\* the chunks of the runs rs, counted
RECURSIVE SpeechChunks(_)
SpeechChunks(rs) == IF rs = <<>> THEN 0 ELSE RunLen(Head(rs)) + SpeechChunks(Tail(rs))

\* the speech chunks read that have been through the loop body
SpeechProcessed ==
    SpeechChunks(runs) - Cardinality({w \in Workers : wpc[w] = "proc" /\ chunk[w].speech})

\* C30: on_speech_detected has been called once for every speech chunk that has
\* been through the loop body and never otherwise: the step that handles a
\* speech chunk calls it once, with the chunk already at the end of the buffer
\* (it is there even when the callback raises), and the step that handles a
\* silence chunk does not call it.
C30_SpeechEventPerSpeechChunk ==
    /\ [](speechEvents = SpeechProcessed)
    /\ [][\A w \in Workers :
            Processes(w)
                => IF chunk[w].speech
                   THEN /\ speechEvents' = speechEvents + 1
                        /\ audio_buffer'[w] # <<>>
                        /\ audio_buffer'[w][Len(audio_buffer'[w])] = chunk[w].id
                   ELSE speechEvents' = speechEvents]_vars

\* two speech runs with a silence chunk between them, three speech chunks in all
C30_Witness ==
    /\ Len(runs) = 2 /\ silences = 1 /\ nread = 4 /\ wpc[1] = "top"
    /\ speechEvents = 3
    /\ Len(flushes) = 1

\* stop_continuous_listening() has returned, and no call was made since
StopReturned == cpc = "idle" /\ call.op = "stop"

\* a worker is inside an iteration: past the flag test, not yet back at it
InFlight(w) == wpc[w] \in {"read", "proc", "backoff"}

\* C32: once stop_continuous_listening() has returned, with no start after it,
\* the listener is not listening and no worker begins another iteration: a
\* worker at the flag test leaves the loop, one that has left stays out, no
\* chunk is read any more, and while no worker is inside the iteration that was
\* in flight nothing is flushed or transcribed and no callback is called.
C32_NothingAfterStop ==
    /\ [](StopReturned => (~is_listening /\ resumed = {}))
    /\ [][StopReturned
            => /\ \A w \in Workers :
                    /\ wpc[w] = "top" => wpc'[w] \in {"top", "exited"}
                    /\ wpc[w] \in {"none", "exited"} => wpc'[w] = wpc[w]
               /\ nread' = nread
               /\ (\A w \in Workers : ~InFlight(w))
                    => UNCHANGED <<flushes, ntranscribe, speechEvents, wakeEvents>>]_vars

\* the worker has left the loop after stop returned; the read of the iteration
\* in flight was issued on the closed stream and failed
C32_Witness ==
    /\ StopReturned /\ wpc[1] = "exited" /\ stale = {1}
    /\ streak[1] = 1
    /\ Len(flushes) = 1 /\ readsLeft > 0

(***************************************************************************)
(* Properties of the backends' life cycle over one caller's calls          *)
(* (SpecVoice)                                                             *)
(***************************************************************************)
\* t's call ends in this step with an exception raised in synthesize, the model
\* load behind it
SynthesisFails(t) ==
    /\ tpc[t] \in {"synth", "write"} /\ tpc'[t] = "idle"
    /\ tcall'[t].ret = "None"

\* backend b has an engine whose model is loaded
Loaded(b) == engines[b] # 0 /\ model[engines[b]] = "loaded"

\* C23: a step in which a call fails in synthesis leaves the engines table, the
\* engine instances and their models as they were; a backend whose model is
\* loaded and whose synthesis has failed keeps its instance and its model and
\* begins no load again; and a call in which nothing was raised returns audio.
C23_SynthesisFailureIsPerCall ==
    /\ [][\A t \in Threads :
            SynthesisFails(t) => UNCHANGED <<engines, instBackend, model, loadStarts>>]_vars
    /\ [][\A b \in Registered :
            (synthFails[b] > 0 /\ Loaded(b))
                => /\ engines'[b] = engines[b]
                   /\ Loaded(b)'
                   /\ loadStarts'[b] = loadStarts[b]]_vars
    /\ [](\A t \in Threads :
            (SpeakReturned(t) /\ tcall[t].exc = "none") => tcall[t].ret = "audio")

\* the second call on coqui returned audio after the first failed in synthesis,
\* with the one load the first call made
C23_Witness ==
    /\ callsLeft[1] = 0 /\ SpeakReturned(1)
    /\ tcall[1].engine = "coqui" /\ tcall[1].ret = "audio"
    /\ synthFails["coqui"] = 1
    /\ loadStarts["coqui"] = 1 /\ loadFails["coqui"] = 0

\* what the manager holds of backend b: its entry in self.engines, the instances
\* made for it, its model, and the loads and failures counted for it
BackendState(b) ==
    <<engines[b], InstancesOf(b),
      IF engines[b] # 0 THEN model[engines[b]] ELSE "None",
      loadStarts[b], loadFails[b], synthFails[b]>>

\* t's call takes a step
Steps(t) == tpc'[t] # tpc[t] \/ tcall'[t] # tcall[t]

\* C24: a step of a call on one backend, the failure of its load or of its
\* synthesis included, leaves what the manager holds of every other backend as
\* it was.
C24_BackendsIsolated ==
    [][\A t \in Threads, b \in Registered :
         (Steps(t) /\ tcall'[t].engine # b) => BackendState(b)' = BackendState(b)]_vars

\* bark, loaded by the first call, is still loaded after the load of coqui
\* failed in the second
C24_Witness ==
    /\ callsLeft[1] = 0 /\ SpeakReturned(1)
    /\ tcall[1].engine = "coqui" /\ tcall[1].exc = "ImportError"
    /\ loadFails["coqui"] = 1
    /\ Loaded("bark") /\ loadStarts["bark"] = 1

\* C25: over one caller's calls every backend has at most one engine instance,
\* the one self.engines holds for it from its creation on, and a backend whose
\* model is loaded stays loaded and begins no load again.
C25_OneInstanceLoadedOnce ==
    /\ [](\A b \in Registered :
            /\ Cardinality(InstancesOf(b)) <= 1
            /\ engines[b] # 0 => InstancesOf(b) = {engines[b]})
    /\ [][\A b \in Registered : engines[b] # 0 => engines'[b] = engines[b]]_vars
    /\ [][\A b \in Registered :
            Loaded(b) => (Loaded(b)' /\ loadStarts'[b] = loadStarts[b])]_vars

\* two calls on bark: one instance, one load
C25_Witness ==
    /\ callsLeft[1] = 0 /\ SpeakReturned(1)
    /\ tcall[1].engine = "bark" /\ tcall[1].ret = "audio"
    /\ synthFails["bark"] = 1
    /\ InstancesOf("bark") = {engines["bark"]} /\ Len(instBackend) = 1
    /\ loadStarts["bark"] = 1

(***************************************************************************)
(* Properties of the permission request (Spec)                             *)
(***************************************************************************)
\* request_microphone_permission(), called directly, has returned
PermissionReturned == cpc = "idle" /\ call.op = "perm"

\* C26: when request_microphone_permission() has returned it has opened at most
\* one throwaway stream (the last stream created), that stream is closed, and
\* permission_granted is True exactly when the call returned True.
C26_ThrowawayStreamReleased ==
    PermissionReturned
        => /\ call.probes <= 1
           /\ call.probes = 1 => nstreams \notin openStreams
           /\ permission_granted <=> call.ret = "True"

\* a call that asked for permission and was refused has returned
PermissionRefused ==
    /\ cpc = "idle" /\ call.op \in {"perm", "start"}
    /\ call.perm \in {"no_stream", "io_error"}

\* C27: a request_microphone_permission() or start_continuous_listening() call
\* whose permission request failed has returned False, without raising, and has
\* called on_permission_error exactly once.
C27_PermissionFailureSurfacedOnce ==
    PermissionRefused => (call.ret = "False" /\ call.errors = 1)

(***************************************************************************)
(* Properties of the worker over a long speech run (SpecLoop)              *)
(***************************************************************************)
\* the chunks read so far end in a speech run, all of it through the loop body
InRun == AllProcessed /\ runs # <<>> /\ runs[Len(runs)].last = nread

\* C29: once the worker has processed more than 50 speech chunks in a row, the
\* segment of that run has been flushed, no silence chunk having followed yet.
C29_FlushWhenBoundExceeded ==
    (InRun /\ RunLen(runs[Len(runs)]) > MaxBuffer)
        => /\ flushes # <<>>
           /\ flushes[Len(flushes)][1] >= runs[Len(runs)].first

(***************************************************************************)
(* Properties of the audio format (Spec)                                   *)
(***************************************************************************)
\* C31: the rate the listener sizes its chunks with, gives to the classifier and
\* writes in the WAV header (self.sample_rate) is the rate its stream was opened
\* with, and once a chunk has been read it is a rate the primary classifier
\* accepts.
C31_OneSampleRate ==
    /\ stream \in openStreams => StreamRate(stream) = sample_rate
    /\ lastFlush.wav => lastFlush.framerate = StreamRate(stream)
    /\ nread > 0 => sample_rate \in VadRates


(***************************************************************************)
(* Properties of the worker's resources                                    *)
(***************************************************************************)
\* C33: every segment handed to _process_speech_buffer has at most 50 chunks,
\* and a worker at the start of a loop iteration holds at most 50 chunks in its
\* buffer, whatever was raised in the iterations before.
C33_BufferBounded ==
    /\ \A i \in 1..Len(flushes) : Len(flushes[i]) <= MaxBuffer
    /\ \A w \in Workers : wpc[w] = "top" => Len(audio_buffer[w]) <= MaxBuffer

\* C34: no temporary WAV file created by a flush is left on disk when
\* _process_speech_buffer has returned.
C34_TempFilesDeleted == tempLeaked = 0

\* start_continuous_listening() has returned False
StartRefused == cpc = "idle" /\ call.op = "start" /\ call.ret = "False"

\* C35: when start_continuous_listening() has returned False the listener is
\* not listening and its stream field holds no open stream.
C35_FailedStartLeavesNothing ==
    StartRefused => (~is_listening /\ stream \notin openStreams)

(***************************************************************************)
(* Properties of the voice catalog (SpecVoice)                             *)
(***************************************************************************)
\* C36: a speak(text, engine, voice_id) call, without a reference path, whose
\* voice_id get_all_voices lists for that engine, speaks with that voice when it
\* reaches synthesis.
C36_ListedVoiceSelected ==
    \A t \in Threads :
        LET c == tcall[t]
        IN  (c.engine \in Registered /\ c.voice \in ListedVoices(c.engine)
               /\ c.clone = "none" /\ c.used # "none")
                => c.used = c.voice

\* C37: a voice recorded in a PiperEngine's models_downloaded has both its model
\* file and its config file in PIPER_DIR.
C37_DownloadedHasBothFiles ==
    \A i \in 1..Len(models_downloaded) :
        \A v \in models_downloaded[i] :
            <<v, "model">> \in piper_files /\ <<v, "config">> \in piper_files

====
